---------------------------- MODULE Spec2Model ----------------------------
(***************************************************************************)
(* Model of tools/rawconfig.py: the LevelDB key scheme, the sketch scan,   *)
(* the four read projections, write_value's splice and the main block's    *)
(* key resolution and per-key loops.                                       *)
(*                                                                         *)
(* Strings are sequences of symbols.  A symbol is one character ("A", "/", *)
(* ":") or a fixed run of characters that the code only ever matches as a  *)
(* whole ("theia", ".arduinoIDE-configOptions-", "file:///", "Proj").      *)
(***************************************************************************)
EXTENDS Integers, Sequences, FiniteSets, TLC

VARIABLES
    db,        \* the store: key |-> stored bytes
    pc,        \* "idle", "loop" (in a per-key loop), "done" (ended, code 0), "exit" (ended, code 1)
    argv,      \* the command line of the run
    all_keys,  \* line 389/394
    queue,     \* the list the running loop iterates (matching_keys or all_keys)
    idx,       \* the loop's position in queue
    branch,    \* "filter" (lines 408-425), "fallback" (427-430), "dump" (433)
    exitcode,  \* the process's exit code once it has ended
    out,       \* what the run printed with json.dumps, one entry per key
    log,       \* history: what update_database did for each key it was handed,
               \* with the loop (branch) and the position (at) it was handed it
    last       \* history: the store before the latest update_database and its outcome

vars == <<db, pc, argv, all_keys, queue, idx, branch, exitcode, out, log, last>>

(***************************************************************************)
(* Bounds of the model.                                                    *)
(***************************************************************************)
\* Values in one property list, all its options together.
MaxValues == 2
\* Options in one property list.
MaxOptions == 2
\* Keys in a store that holds several configuration documents.
MaxKeys == 3

(***************************************************************************)
(* Strings.                                                                *)
(***************************************************************************)
\* The first character's byte of every symbol: LevelDB orders keys bytewise.
Ord(c) ==
    CASE c = "<00>" -> 0
      [] c = "<01>" -> 1
      [] c = ".arduinoIDE-configOptions-" -> 46
      [] c = "." -> 46
      [] c = "/" -> 47
      [] c = ":" -> 58
      [] c = "A" -> 65
      [] c = "B" -> 66
      [] c = "Proj" -> 80
      [] c = "_file://" -> 95
      [] c = "esp32:esp32:esp32" -> 101
      [] c = "file:///" -> 102
      [] c = "s3" -> 115
      [] c = "theia" -> 116
      [] c = "w" -> 119

\* The symbols that are one character long (what a regex "." can match).
SingleChars == {".", "/", ":", "A", "B", "w"}

\* bytes.__lt__: bytewise lexicographic order, a proper prefix first.
RECURSIVE BytesLess(_, _)
BytesLess(a, b) ==
    IF b = <<>> THEN FALSE
    ELSE IF a = <<>> THEN TRUE
    ELSE IF Ord(Head(a)) # Ord(Head(b)) THEN Ord(Head(a)) < Ord(Head(b))
    ELSE BytesLess(Tail(a), Tail(b))

StartsWith(s, p) == Len(p) <= Len(s) /\ SubSeq(s, 1, Len(p)) = p

EndsWith(s, p) ==
    Len(p) <= Len(s) /\ SubSeq(s, Len(s) - Len(p) + 1, Len(s)) = p

\* str.find: the 0-based index of the first occurrence of p in s, -1 if none.
Find(s, p) ==
    LET hits == {i \in 0..(Len(s) - Len(p)) : SubSeq(s, i + 1, i + Len(p)) = p}
    IN  IF hits = {} THEN -1 ELSE CHOOSE i \in hits : \A j \in hits : i <= j

\* s[a:b] for 0 <= a, 0 <= b.
Slice(s, a, b) == SubSeq(s, a + 1, IF b > Len(s) THEN Len(s) ELSE b)

\* str.strip(":")
RECURSIVE StripColons(_)
StripColons(s) ==
    IF s = <<>> THEN s
    ELSE IF Head(s) = ":" THEN StripColons(Tail(s))
    ELSE IF s[Len(s)] = ":" THEN StripColons(SubSeq(s, 1, Len(s) - 1))
    ELSE s

(***************************************************************************)
(* Keys.                                                                   *)
(***************************************************************************)
KeyPrefix == <<"_file://", "<00>", "<01>", "theia", ":">>
ConfigTag == <<".arduinoIDE-configOptions-">>

Esp32 == <<"esp32:esp32:esp32">>
Esp32s3 == <<"esp32:esp32:esp32", "s3">>

SketchA == <<"file:///", "w", "/", "Proj", "A">>
SketchB == <<"file:///", "w", "/", "Proj", "B">>
SketchRootA == <<"file:///", "Proj", "A">>

\* The key of board's document for sketch (lines 389-392).
SketchKey(board, sketch) ==
    KeyPrefix \o sketch \o <<":">> \o ConfigTag \o board

\* The key of board's global document (lines 394-396).
BoardKey(board) == KeyPrefix \o ConfigTag \o board

\* The keys of S in db.iterator's order.
RECURSIVE SortedKeys(_)
SortedKeys(S) ==
    IF S = {} THEN <<>>
    ELSE LET m == CHOOSE k \in S : \A o \in S \ {k} : BytesLess(k, o)
         IN  <<m>> \o SortedKeys(S \ {m})

\* One step of get_sketch's loop: the sketch path a key contributes, if any.
SketchOf(key_str, board) ==
    IF Find(key_str, ConfigTag \o board) # -1
    THEN LET start == Find(key_str, <<"theia", ":">>) + Len(<<"theia", ":">>)
             end == Find(key_str, <<":">> \o ConfigTag \o board)
         IN  IF start # -1 /\ end # -1 /\ start < end
             THEN <<Slice(key_str, start, end)>>
             ELSE <<>>
    ELSE <<>>

RECURSIVE SketchScan(_, _)
SketchScan(keys, board) ==
    IF keys = <<>> THEN <<>>
    ELSE SketchOf(Head(keys), board) \o SketchScan(Tail(keys), board)

get_sketch(store, board) ==
    SketchScan(SortedKeys({k \in DOMAIN store : StartsWith(k, KeyPrefix)}), board)

\* AllKeys with the global key always first in the list.
AllKeys_GlobalFirst(store, board) ==
    LET sketch_paths == get_sketch(store, board)
    IN  <<BoardKey(board)>> \o
        [i \in 1..Len(sketch_paths) |-> SketchKey(board, sketch_paths[i])]

\* Lines 385-396: the keys built from the scan, or the board's global key.
AllKeys(store, board) ==
    LET sketch_paths == get_sketch(store, board)
    IN  IF sketch_paths # <<>>
        THEN [i \in 1..Len(sketch_paths) |-> SketchKey(board, sketch_paths[i])]
        ELSE <<BoardKey(board)>>

\* re.search(rf"^file:///.*?/{filter_sketch}$", sketch_path) for a filter of
\* literal symbols and "." wildcards.
AtomMatches(p, c) == IF p = "." THEN c \in SingleChars ELSE p = c

PatternMatches(filter_sketch, sketch_path) ==
    LET n == Len(filter_sketch)
        m == Len(sketch_path)
    IN  /\ m >= n + 2
        /\ sketch_path[1] = "file:///"
        /\ sketch_path[m - n] = "/"
        /\ \A i \in 1..n : AtomMatches(filter_sketch[i], sketch_path[m - n + i])

\* Lines 411-422: whether a key of all_keys passes the sketch filter.
KeyMatches(key_str, board, filter_sketch) ==
    LET prefix == <<"_file://", "<00>", "<01>", "theia">>
        suffix == ConfigTag \o board
    IN  /\ StartsWith(key_str, prefix)
        /\ EndsWith(key_str, suffix)
        /\ PatternMatches(filter_sketch,
              StripColons(Slice(key_str, Len(prefix), Find(key_str, suffix))))

MatchingKeys(keys, board, filter_sketch) ==
    SelectSeq(keys, LAMBDA k : KeyMatches(k, board, filter_sketch))

(***************************************************************************)
(* Documents.                                                              *)
(***************************************************************************)
PropertyArg == "configOptions"
OptionArg == "PartitionScheme"
ValueArgs == {"custom"}

OptionNames == {"PartitionScheme", "CPUFreq"}
ValueNames == {"custom", "default"}

\* A Value as the IDE stores it; sel is "true", "false" or "absent".
Value(name, sel) ==
    IF sel = "absent"
    THEN [value |-> name, label |-> "label of " \o name]
    ELSE [value |-> name, label |-> "label of " \o name, selected |-> (sel = "true")]

Option(name, values) == [option |-> name, values |-> values]

ValueKinds == {Value(n, s) : n \in ValueNames, s \in {"true", "false", "absent"}}

ValueLists(budget) == UNION {[1..k -> ValueKinds] : k \in 0..budget}

\* The property lists of at most k options that hold at most budget Values.
RECURSIVE OptionLists(_, _)
OptionLists(k, budget) ==
    IF k = 0 THEN {<<>>}
    ELSE {<<>>} \cup
         UNION {{<<Option(n, vs)>> \o rest : rest \in OptionLists(k - 1, budget - Len(vs))} :
                   n \in OptionNames, vs \in ValueLists(budget)}

\* A second top-level property, with an option of the same name as the first's.
OtherProperty == <<Option("PartitionScheme", <<Value("custom", "false"), Value("default", "true")>>)>>

EmptyDoc == <<>>

Document(options) == [configOptions |-> options, other |-> OtherProperty]

Documents ==
    {Document(ol) : ol \in OptionLists(MaxOptions, MaxValues)} \cup {[other |-> OtherProperty]}

\* What the store holds under a key: the marker byte and a JSON text (sep tells
\* the separators of the text: the IDE's are compact, json.dumps's are ", " and
\* ": "), or bytes whose braces hold no JSON.
Stored(doc, sep) == [kind |-> "json", doc |-> doc, sep |-> sep]
BadJson == [kind |-> "badjson"]

\* The scenario document of the specification.
ScenarioDoc ==
    Document(<<Option("PartitionScheme", <<Value("default", "true"), Value("custom", "false")>>)>>)

\* Documents for the stores that hold several keys.
Pool ==
    { Stored(ScenarioDoc, "compact"),
      BadJson,
      Stored(Document(<<Option("PartitionScheme", <<Value("default", "true")>>)>>), "compact"),
      Stored(Document(<<Option("PartitionScheme", <<Value("default", "true")>>),
                        Option("PartitionScheme", <<Value("custom", "false")>>)>>), "compact"),
      Stored(Document(<<Option("PartitionScheme", <<>>),
                        Option("PartitionScheme", <<Value("custom", "false")>>)>>), "compact") }

(***************************************************************************)
(* The read projections.                                                   *)
(***************************************************************************)
read_key(store, key) ==
    IF key \in DOMAIN store /\ store[key].kind = "json"
    THEN store[key].doc
    ELSE EmptyDoc

\* data.get(json_property), None as the empty list (both are falsy).
GetProperty(data, json_property) ==
    IF json_property \in DOMAIN data THEN data[json_property] ELSE <<>>

RECURSIVE Flatten(_)
Flatten(seqs) == IF seqs = <<>> THEN <<>> ELSE Head(seqs) \o Flatten(Tail(seqs))

read_configOptions(store, key) == read_key(store, key)

read_property(store, key, json_property) ==
    LET data == read_key(store, key)
    IN  IF data # EmptyDoc THEN GetProperty(data, json_property) ELSE <<>>

read_object(store, key, json_property, json_option) ==
    SelectSeq(read_property(store, key, json_property),
              LAMBDA item : item.option = json_option)

read_value(store, key, json_property, json_option, json_object) ==
    LET options == read_object(store, key, json_property, json_option)
    IN  Flatten([i \in 1..Len(options) |->
                   SelectSeq(options[i].values, LAMBDA v : v.value = json_object)])

(***************************************************************************)
(* write_value.                                                            *)
(***************************************************************************)
\* dict.update
Update(a, b) ==
    [k \in DOMAIN a \cup DOMAIN b |-> IF k \in DOMAIN b THEN b[k] ELSE a[k]]

SetSelected(v, b) == Update(v, [selected |-> b])

\* ValueStage without the loop of lines 276-277.
ValueStage_KeepSelected(item, json_object, first_found, not_written) ==
    LET hits == {i \in 1..Len(item.values) : item.values[i].value = json_object}
        first == CHOOSE i \in hits : \A j \in hits : i <= j
    IN  IF hits # {}
        THEN [item |-> Update(item, [values |->
                          [item.values EXCEPT ![first] = Update(item.values[first], first_found)]]),
              not_written |-> "false"]
        ELSE [item |-> item,
              not_written |-> IF Len(item.values) = 0 THEN not_written ELSE "true"]

\* Lines 276-288 for one item: its values after the two loops, and
\* not_written ("unbound" while no assignment has reached it).
ValueStage(item, json_object, first_found, not_written) ==
    LET cleared == [i \in 1..Len(item.values) |-> SetSelected(item.values[i], FALSE)]
        hits == {i \in 1..Len(cleared) : cleared[i].value = json_object}
        first == CHOOSE i \in hits : \A j \in hits : i <= j
    IN  IF hits # {}
        THEN [item |-> Update(item, [values |->
                          [cleared EXCEPT ![first] = Update(cleared[first], first_found)]]),
              not_written |-> "false"]
        ELSE [item |-> Update(item, [values |-> cleared]),
              not_written |-> IF Len(cleared) = 0 THEN not_written ELSE "true"]

\* OptionStage without the check of lines 289-291.
RECURSIVE OptionStage_NoCheck(_, _, _, _)
OptionStage_NoCheck(items, json_object, first_found, not_written) ==
    IF items = <<>> THEN [status |-> "ok", items |-> <<>>]
    ELSE LET r == ValueStage(Head(items), json_object, first_found, not_written)
             rest == OptionStage_NoCheck(Tail(items), json_object, first_found, r.not_written)
         IN  [status |-> "ok", items |-> <<r.item>> \o rest.items]

\* Lines 274-291: the loop over json_option_write, stopped by the first item
\* that leaves not_written true (sys.exit) or unbound (UnboundLocalError).
RECURSIVE OptionStage(_, _, _, _)
OptionStage(items, json_object, first_found, not_written) ==
    IF items = <<>> THEN [status |-> "ok", items |-> <<>>]
    ELSE LET r == ValueStage(Head(items), json_object, first_found, not_written)
         IN  IF r.not_written = "true" THEN [status |-> "splice", items |-> <<>>]
             ELSE IF r.not_written = "unbound" THEN [status |-> "unbound", items |-> <<>>]
             ELSE LET rest == OptionStage(Tail(items), json_object, first_found, r.not_written)
                  IN  [status |-> rest.status, items |-> <<r.item>> \o rest.items]

\* PropertyStage that keeps only the option it updated.
PropertyStage_OnlyOption(json_property_write, json_option, json_option_write) ==
    [status |-> "ok",
     items |-> <<Update(json_property_write[1], json_option_write[1])>>]

\* Lines 294-307: the first option named json_option takes json_option_write[0].
PropertyStage(json_property_write, json_option, json_option_write) ==
    LET hits == {i \in 1..Len(json_property_write) :
                    json_property_write[i].option = json_option}
        first == CHOOSE i \in hits : \A j \in hits : i <= j
    IN  IF hits # {}
        THEN [status |-> "ok",
              items |-> [json_property_write EXCEPT
                            ![first] = Update(json_property_write[first], json_option_write[1])]]
        ELSE [status |-> "splice", items |-> json_property_write]

\* MarkSelected without line 268.
MarkSelected_Unchanged(found) == found

\* Lines 265-268: the found values, marked selected.
MarkSelected(found) == [i \in 1..Len(found) |-> SetSelected(found[i], TRUE)]

\* write_value that exits where it finds nothing to select.
write_value_ExitOnMissing(store, key, json_property, json_option, json_object) ==
    LET found == read_value(store, key, json_property, json_option, json_object)
        json_object_write == MarkSelected(found)
        json_option_write == read_object(store, key, json_property, json_option)
        ostage == OptionStage(json_option_write, json_object, json_object_write[1], "unbound")
        json_property_write == read_property(store, key, json_property)
        pstage == PropertyStage(json_property_write, json_option, ostage.items)
        data == read_configOptions(store, key)
    IN  IF json_object_write = <<>> THEN [outcome |-> "splice", doc |-> EmptyDoc]
        ELSE IF ostage.status # "ok" THEN [outcome |-> ostage.status, doc |-> EmptyDoc]
        ELSE [outcome |-> "put",
              doc |-> [data EXCEPT ![json_property] = pstage.items]]

\* write_value up to the put: what happened and the document to put.
\*   "nothing": a guard was falsy and the function returned without a word
\*   "splice":  an "Error: ... not written" and sys.exit(1)
\*   "unbound": UnboundLocalError for not_written
\*   "put":     write_key is called with doc
write_value(store, key, json_property, json_option, json_object) ==
    LET found == read_value(store, key, json_property, json_option, json_object)
        json_object_write == MarkSelected(found)
        json_option_write == read_object(store, key, json_property, json_option)
        ostage == OptionStage(json_option_write, json_object, json_object_write[1], "unbound")
        json_property_write == read_property(store, key, json_property)
        pstage == PropertyStage(json_property_write, json_option, ostage.items)
        data == read_configOptions(store, key)
    IN  IF json_object_write = <<>> THEN [outcome |-> "nothing", doc |-> EmptyDoc]
        ELSE IF json_option_write = <<>> THEN [outcome |-> "nothing", doc |-> EmptyDoc]
        ELSE IF ostage.status # "ok" THEN [outcome |-> ostage.status, doc |-> EmptyDoc]
        ELSE IF json_property_write = <<>> THEN [outcome |-> "nothing", doc |-> EmptyDoc]
        ELSE IF pstage.status # "ok" THEN [outcome |-> "splice", doc |-> EmptyDoc]
        ELSE IF data = EmptyDoc THEN [outcome |-> "nothing", doc |-> EmptyDoc]
        ELSE IF json_property \notin DOMAIN data THEN [outcome |-> "splice", doc |-> EmptyDoc]
        ELSE [outcome |-> "put",
              doc |-> [data EXCEPT ![json_property] = pstage.items]]

\* Line 320: the bytes handed to write_key.
Encode(doc) == Stored(doc, "spaced")

(***************************************************************************)
(* The stores a run can find.                                              *)
(***************************************************************************)
\* The board a run is invoked for; the store also holds a document of Esp32s3.
Boards == {Esp32}
Filters == {<<"Proj", "A">>, <<"Proj", ".">>, <<>>}

\* One sketch document of every shape.
DocStores ==
    {SketchKey(Esp32, SketchA) :> Stored(d, "compact") : d \in Documents}

KeyUniverse ==
    { BoardKey(Esp32), SketchKey(Esp32, SketchA), SketchKey(Esp32, SketchB),
      SketchKey(Esp32, SketchRootA), SketchKey(Esp32s3, SketchA) }

\* Up to MaxKeys documents of the pool.
KeyStores ==
    UNION {[ks -> Pool] : ks \in {x \in SUBSET KeyUniverse : Cardinality(x) <= MaxKeys}}

\* A name that is not bound (a string argument, a value argument).
NoArg == <<"None">>
NoValue == "None"
NoLast == [key |-> <<>>, before |-> <<>>, outcome |-> "none"]

Init ==
    /\ db \in DocStores \cup KeyStores
    /\ pc = "idle"
    /\ argv = [mode |-> "r", argc |-> 0, board |-> NoArg, value |-> NoValue, filter |-> NoArg]
    /\ all_keys = <<>>
    /\ queue = <<>>
    /\ idx = 1
    /\ branch = "none"
    /\ exitcode = -1
    /\ out = <<>>
    /\ log = <<>>
    /\ last = NoLast

(***************************************************************************)
(* The main block.                                                         *)
(***************************************************************************)
\* The command lines: argc is len(sys.argv), and an argument the command line
\* does not reach is a name that was never bound.
Modes == {"r", "w"}

Command(mode, argc, board, value, filter) ==
    [mode |-> mode, argc |-> argc, board |-> board, value |-> value, filter |-> filter]

Commands ==
    {Command(m, 3, NoArg, NoValue, NoArg) : m \in Modes}
    \cup {Command(m, n, b, NoValue, NoArg) : m \in Modes, n \in 4..6, b \in Boards}
    \cup {Command(m, 7, b, v, NoArg) : m \in Modes, b \in Boards, v \in ValueArgs}
    \cup {Command(m, 8, b, v, f) : m \in Modes, b \in Boards, v \in ValueArgs, f \in Filters}

\* Lines 385-433 up to the first update_database: the arguments are bound, the
\* keys are built and the branch is taken.
Invoke(cmd) ==
    /\ pc = "idle"
    /\ argv' = cmd
    /\ all_keys' = IF cmd.argc > 3 THEN AllKeys(db, cmd.board) ELSE <<>>
    /\ IF cmd.argc > 7
       THEN /\ branch' = "filter"
            /\ queue' = IF cmd.filter # <<>> /\ all_keys' # <<>>
                        THEN MatchingKeys(all_keys', cmd.board, cmd.filter)
                        ELSE <<>>
       ELSE IF cmd.argc > 3
       THEN /\ branch' = "fallback"
            /\ queue' = all_keys'
       ELSE /\ branch' = "dump"
            /\ queue' = <<>>
    /\ pc' = "loop"
    /\ UNCHANGED <<db, idx, exitcode, out, log, last>>

InLoop == pc = "loop" /\ branch \in {"filter", "fallback"} /\ idx <= Len(queue)

Key == queue[idx]

Note(outcome) ==
    /\ log' = Append(log, [key |-> Key, outcome |-> outcome, at |-> idx, branch |-> branch])
    /\ last' = [key |-> Key, before |-> db, outcome |-> outcome]

\* update_database in read mode (lines 328-336).
ReadResult(store, key) ==
    IF argv.argc > 6 THEN read_value(store, key, PropertyArg, OptionArg, argv.value)
    ELSE IF argv.argc > 5 THEN read_object(store, key, PropertyArg, OptionArg)
    ELSE IF argv.argc > 4 THEN read_property(store, key, PropertyArg)
    ELSE read_configOptions(store, key)

ReadKey ==
    /\ InLoop
    /\ argv.mode = "r"
    /\ out' = Append(out, [key |-> Key, printed |-> ReadResult(db, Key)])
    /\ Note("read")
    /\ idx' = idx + 1
    /\ UNCHANGED <<db, pc, argv, all_keys, queue, branch, exitcode>>

\* update_database in write mode without a value argument (line 342 is false).
WriteSkip ==
    /\ InLoop
    /\ argv.mode = "w"
    /\ argv.argc <= 6
    /\ Note("skip")
    /\ idx' = idx + 1
    /\ UNCHANGED <<db, pc, argv, all_keys, queue, branch, exitcode, out>>

Written == write_value(db, Key, PropertyArg, OptionArg, argv.value)

InWrite == InLoop /\ argv.mode = "w" /\ argv.argc > 6

\* Why write_value found nothing to write.
NothingKind(store, key) ==
    IF key \notin DOMAIN store THEN "absent"
    ELSE IF store[key].kind # "json" THEN "decode"
    ELSE "notarget"

\* write_value returns without a put and without a message.
WriteNothing ==
    /\ InWrite
    /\ Written.outcome = "nothing"
    /\ Note(NothingKind(db, Key))
    /\ idx' = idx + 1
    /\ UNCHANGED <<db, pc, argv, all_keys, queue, branch, exitcode, out>>

\* sys.exit(1) at line 291, 307 or 317.
WriteSpliceExit ==
    /\ InWrite
    /\ Written.outcome = "splice"
    /\ Note("splice")
    /\ pc' = "exit"
    /\ exitcode' = 1
    /\ UNCHANGED <<db, argv, all_keys, queue, idx, branch, out>>

\* UnboundLocalError at line 289.  It is a NameError: raised under the try of
\* line 407 it is caught at line 426 and the loop of line 428 starts; raised
\* in that loop it ends the process.
WriteUnbound ==
    /\ InWrite
    /\ Written.outcome = "unbound"
    /\ Note("unbound")
    /\ IF branch = "filter"
       THEN /\ branch' = "fallback"
            /\ queue' = all_keys
            /\ idx' = 1
            /\ UNCHANGED <<pc, exitcode>>
       ELSE /\ pc' = "exit"
            /\ exitcode' = 1
            /\ UNCHANGED <<branch, queue, idx>>
    /\ UNCHANGED <<db, argv, all_keys, out>>

\* write_key (lines 200-204): db.put stores the bytes or raises, which is
\* printed and swallowed.
WritePut ==
    /\ InWrite
    /\ Written.outcome = "put"
    /\ \E stored \in BOOLEAN :
          /\ db' = IF stored
                   THEN [k \in DOMAIN db \cup {Key} |->
                            IF k = Key THEN Encode(Written.doc) ELSE db[k]]
                   ELSE db
          /\ Note(IF stored THEN "put" ELSE "putfail")
    /\ idx' = idx + 1
    /\ UNCHANGED <<pc, argv, all_keys, queue, branch, exitcode, out>>

\* Line 433: update_database(mode, db, None, None, None, None).
DumpTable ==
    /\ pc = "loop"
    /\ branch = "dump"
    /\ out' = IF argv.mode = "r" THEN <<[key |-> <<>>, printed |-> db]>> ELSE <<>>
    /\ pc' = "done"
    /\ exitcode' = 0
    /\ UNCHANGED <<db, argv, all_keys, queue, idx, branch, log, last>>

\* The loop is over: db.close() and the end of the script.
Finish ==
    /\ pc = "loop"
    /\ branch \in {"filter", "fallback"}
    /\ idx > Len(queue)
    /\ pc' = "done"
    /\ exitcode' = 0
    /\ UNCHANGED <<db, argv, all_keys, queue, idx, branch, out, log, last>>

Next ==
    \/ \E cmd \in Commands : Invoke(cmd)
    \/ ReadKey
    \/ WriteSkip
    \/ WriteNothing
    \/ WriteSpliceExit
    \/ WriteUnbound
    \/ WritePut
    \/ DumpTable
    \/ Finish

Spec == Init /\ [][Next]_vars

(***************************************************************************)
(* Vocabulary of the properties.                                           *)
(***************************************************************************)
Range(seq) == {seq[i] : i \in DOMAIN seq}

Sketches == {SketchA, SketchB, SketchRootA}

IsTrue(v) == "selected" \in DOMAIN v /\ v.selected = TRUE
IsFalse(v) == "selected" \in DOMAIN v /\ v.selected = FALSE

\* A Value without its selected field.
Unselected(v) == [k \in DOMAIN v \ {"selected"} |-> v[k]]

Started == pc # "idle"
NoFilter == argv.argc \in 4..7
WithFilter == argv.argc = 8

\* The latest update_database was a call of write_value.
WriteCalled == argv.mode = "w" /\ argv.argc > 6 /\ last.outcome # "none"

\* The sketch documents the store holds for board.
BoardSketchKeys(store, board) == {SketchKey(board, s) : s \in Sketches} \cap DOMAIN store

\* The sketch path ends in /F.
PathEndsIn(sketch, F) == EndsWith(sketch, <<"/">> \o F) \/ sketch = <<"file:///">> \o F

FilterKeys(store, board, F) ==
    {SketchKey(board, s) : s \in {x \in Sketches : PathEndsIn(x, F)}} \cap DOMAIN store

\* The list a loop of the run iterated.
QueueOf(br) ==
    IF br = "filter" THEN MatchingKeys(all_keys, argv.board, argv.filter) ELSE all_keys

\* The option groups named OptionArg in the document stored under the latest key.
GroupsBefore == read_object(last.before, last.key, PropertyArg, OptionArg)
GroupsAfter == read_object(db, last.key, PropertyArg, OptionArg)
Exclusive(values) ==
    /\ Cardinality({i \in 1..Len(values) : IsTrue(values[i])}) <= 1
    /\ \A i \in 1..Len(values) : values[i].value # argv.value => IsFalse(values[i])

(***************************************************************************)
(* C1.                                                                     *)
(***************************************************************************)
\* C1: after a successful write of V, the values list of the option named O
\* under P (the first of that name, the one write_value splices back) holds at
\* most one Value with selected = true, and every Value of that list named
\* otherwise reads back selected = false, whatever the selection was before.
C1_Exclusive ==
    last.outcome = "put" => Exclusive(GroupsAfter[1].values)

\* A write stored over a group where two Values were selected.
C1_Witness ==
    /\ last.outcome = "put"
    /\ Cardinality({i \in 1..Len(GroupsBefore[1].values) :
                       IsTrue(GroupsBefore[1].values[i])}) >= 2
    /\ \E i \in 1..Len(GroupsAfter[1].values) : IsFalse(GroupsAfter[1].values[i])

(***************************************************************************)
(* C2.                                                                     *)
(***************************************************************************)
ReadsSelected(store) ==
    LET r == read_value(store, last.key, PropertyArg, OptionArg, argv.value)
    IN  /\ r # <<>>
        /\ \E i \in 1..Len(r) : r[i].value = argv.value /\ IsTrue(r[i])

C3_UnknownTargetExitsOne ==
    (/\ pc \in {"done", "exit"}
     /\ argv.mode = "w"
     /\ argv.argc = 7
     /\ Len(queue) = 1
     /\ Len(log) = 1
     /\ log[1].outcome = "notarget")
        => (exitcode = 1 /\ db = last.before)

(***************************************************************************)
(* C4.                                                                     *)
(***************************************************************************)
SameButSelected(a, b) ==
    /\ DOMAIN a = DOMAIN b
    /\ a.option = b.option
    /\ Len(a.values) = Len(b.values)
    /\ \A j \in 1..Len(a.values) : Unselected(a.values[j]) = Unselected(b.values[j])

ScenarioResult ==
    Document(<<Option("PartitionScheme", <<Value("default", "false"), Value("custom", "true")>>)>>)

\* C4: a stored write changes nothing but the selected flags of the Values in
\* the option named O of P: the other keys, the other properties, the other
\* options, the order of options and Values and every other field stay; the
\* scenario document becomes the scenario's result.
C4_Frame ==
    last.outcome = "put" =>
        LET b == read_key(last.before, last.key)
            a == read_key(db, last.key)
        IN  /\ DOMAIN db = DOMAIN last.before
            /\ \A k \in DOMAIN db \ {last.key} : db[k] = last.before[k]
            /\ DOMAIN a = DOMAIN b
            /\ \A p \in DOMAIN a \ {PropertyArg} : a[p] = b[p]
            /\ Len(a[PropertyArg]) = Len(b[PropertyArg])
            /\ \A i \in 1..Len(a[PropertyArg]) :
                  /\ SameButSelected(a[PropertyArg][i], b[PropertyArg][i])
                  /\ b[PropertyArg][i].option # OptionArg => a[PropertyArg][i] = b[PropertyArg][i]
            /\ (b = ScenarioDoc /\ argv.value = "custom") => a = ScenarioResult

\* The scenario's write, stored.
C4_Witness ==
    /\ last.outcome = "put"
    /\ read_key(last.before, last.key) = ScenarioDoc
    /\ read_key(db, last.key) = ScenarioResult

(***************************************************************************)
(* C5.                                                                     *)
(***************************************************************************)
\* C5 as stated: with a sketch document of the board in the store and no
\* filter, the run operates on the board's global key only.
C5_GlobalKeyOnly ==
    (Started /\ NoFilter /\ BoardSketchKeys(db, argv.board) # {})
        => queue = <<BoardKey(argv.board)>>

\* C5 amended: with a sketch document of the board in the store and no
\* filter, the run resolves every sketch key of the board and never the
\* board's global key; the global document is neither read nor written.
C5_SketchKeysOnly ==
    (Started /\ NoFilter /\ BoardSketchKeys(db, argv.board) # {})
        => /\ BoardSketchKeys(db, argv.board) \subseteq Range(queue)
           /\ BoardKey(argv.board) \notin Range(queue)
           /\ \A i \in DOMAIN log : log[i].key \in Range(queue)
           /\ \A i \in DOMAIN out : out[i].key \in Range(queue)

\* A write without a filter stored in a sketch document while the store
\* holds the board's global document too.
C5_Witness ==
    /\ Started /\ NoFilter
    /\ BoardKey(argv.board) \in DOMAIN db
    /\ last.outcome = "put"
    /\ last.key \in BoardSketchKeys(db, argv.board)

(***************************************************************************)
(* C6.                                                                     *)
(***************************************************************************)
\* C6 as stated, for a filter of literal characters: with a filter F the run
\* operates on exactly the board's sketch keys whose sketch path ends in /F,
\* and reads or writes no other.
C6_FilterResolvesFinalSegment ==
    (Started /\ WithFilter /\ argv.filter # <<>> /\ "." \notin Range(argv.filter))
        => /\ branch = "filter" => Range(queue) = FilterKeys(db, argv.board, argv.filter)
           /\ \A i \in DOMAIN log : log[i].key \in FilterKeys(db, argv.board, argv.filter)

(***************************************************************************)
(* C7.                                                                     *)
(***************************************************************************)
\* C7 as stated: with the board's global document and no sketch document of
\* the board in the store, every run that names the board, also one with a
\* (non-empty) filter, resolves exactly the board's global key.
C7_NoSketchResolvesGlobal ==
    (Started /\ argv.argc > 3 /\ argv.filter # <<>> /\ "." \notin Range(argv.filter)
       /\ BoardKey(argv.board) \in DOMAIN db
       /\ BoardSketchKeys(db, argv.board) = {})
        => queue = <<BoardKey(argv.board)>>

(***************************************************************************)
(* C8.                                                                     *)
(***************************************************************************)
\* C8 as stated: the scan for board B returns exactly the sketch paths S whose
\* key encode(B, S) the store holds, so every sketch key resolved for B exists.
C8_ScanIsBoardScoped ==
    (Started /\ argv.argc > 3)
        => LET found == get_sketch(db, argv.board)
           IN  /\ Range(found) = {s \in Sketches : SketchKey(argv.board, s) \in DOMAIN db}
               /\ Len(found) = Cardinality(Range(found))
               /\ found # <<>> => Range(all_keys) \subseteq DOMAIN db

(***************************************************************************)
(* C9.                                                                     *)
(***************************************************************************)
KeyFailures == {"putfail", "decode", "notarget"}

C10_NoPartialWrite ==
    /\ last.outcome = "splice" => (pc = "exit" /\ exitcode = 1 /\ db = last.before)
    /\ (last.outcome # "none" /\ db # last.before) =>
          /\ last.outcome = "put"
          /\ \E i \in 1..Len(GroupsAfter[1].values) :
                /\ GroupsAfter[1].values[i].value = argv.value
                /\ IsTrue(GroupsAfter[1].values[i])
          /\ \A g \in Range(GroupsBefore) :
                g.values = <<>> \/ \E v \in Range(g.values) : v.value = argv.value
    /\ \A i, j \in DOMAIN log :
          (i < j /\ log[i].branch = log[j].branch) => log[i].at < log[j].at
    /\ last.outcome = "unbound" => db = last.before
    /\ (\E i \in DOMAIN log : log[i].outcome \in {"splice", "unbound"}) => pc # "done"

\* "not written": the value is found in one option group and missing from
\* another, and the run has ended with code 1 after an earlier key was stored.
C10_Witness ==
    /\ last.outcome = "splice"
    /\ pc = "exit"
    /\ Len(log) >= 2
    /\ log[1].outcome = "put"

=============================================================================
